---- MODULE Spec2Model ----
(***************************************************************************)
(* Konsole scrollback core: the history stores of History.cpp (HistoryFile,*)
(* HistoryScrollFile, HistoryScrollNone, CompactHistoryScroll and the      *)
(* HistoryType factories) and the ScreenWindow view over history + screen. *)
(***************************************************************************)
EXTENDS Integers, Sequences, FiniteSets, TLC

VARIABLES
    history,    \* the HistoryScroll object currently installed (a record, by kind)
    oldScroll,  \* the object passed as `old` to the last HistoryType::scroll call:
                \* its kind, identity, lines and whether the call deleted it
    written,    \* lines handed to the current object by addCells/addLine, in order
    pending,    \* the text of an addCells whose addLine has not been called yet
    reads,      \* number of read calls made on the current object
    lastOp,     \* the last operation performed and what it returned
    screen,     \* the Screen the window reads: line counts, columns, selection
    win,        \* the fields of the ScreenWindow
    emitted,    \* the signals the last operation emitted, in order
    file,       \* a HistoryFile used on its own
    fileLog     \* the bytes that the writes to file reported as written, in order

storeState == <<history, oldScroll, written, pending, reads>>

storeVars == <<storeState, lastOp>>

winVars == <<screen, win, emitted>>

fileVars == <<file, fileLog>>

vars == <<storeVars, winVars, fileVars>>

-----------------------------------------------------------------------------
(* Bounds of the model *)

MaxWrites == 2      \* addCells calls accepted by one store object
MaxReads == 2       \* read calls (getCells, getLineLen, isWrappedLine) on one store object
MaxCap == 1         \* largest line count given to a compact store
MaxLen == 3         \* longest line of the format patterns written in SpecLine
MaxHistLines == 2   \* most lines the Screen's history reports
MaxScreenLines == 2 \* most lines of the Screen
MaxColumns == 1     \* most columns of the Screen
MaxWindowLines == 3 \* tallest window
MaxAmount == 2      \* largest scroll amount, scrolled-line and dropped-line count
MaxScrollCount == 2 \* largest magnitude of the scroll counter
MaxCount == 2       \* most bytes one HistoryFile::add or get call is given
MaxFileLength == 3  \* most bytes written to the HistoryFile used on its own

(* Program constants *)

LINE_SIZE == 1024
MAP_THRESHOLD == 0
SizeofInt == 4
SizeofCharacter == 5
SizeofCompactHistoryLine == 48
SizeofCharacterFormat == 12
SizeofQuint16 == 2
BlockLength == 2150

-----------------------------------------------------------------------------
(* Qt helpers *)

qMax(a, b) == IF a < b THEN b ELSE a
qMin(a, b) == IF a < b THEN a ELSE b
qBound(min, val, max) == qMax(min, qMin(max, val))

-----------------------------------------------------------------------------
(* Character cells and their byte image *)

Char(ch, r, fg, bg) ==
    [character |-> ch, rendition |-> r, foregroundColor |-> fg, backgroundColor |-> bg]

equalsFormat(a, b) ==
    /\ a.rendition = b.rendition
    /\ a.foregroundColor = b.foregroundColor
    /\ a.backgroundColor = b.backgroundColor

\* The bytes a Character occupies: quint16 character (low byte first), then one
\* byte each of rendition, foreground and background.
CharByte(c, i) ==
    CASE i = 0 -> c.character % 256
      [] i = 1 -> c.character \div 256
      [] i = 2 -> c.rendition
      [] i = 3 -> c.foregroundColor
      [] OTHER -> c.backgroundColor

\* (unsigned char*)text, count * sizeof(Character)
CharsToBytes(text) ==
    [i \in 1..(Len(text) * SizeofCharacter) |->
        CharByte(text[((i - 1) \div SizeofCharacter) + 1], (i - 1) % SizeofCharacter)]

\* Character res[] viewed over a byte buffer
BytesToChars(bytes) ==
    [k \in 1..(Len(bytes) \div SizeofCharacter) |->
        LET b == (k - 1) * SizeofCharacter
        IN  Char(bytes[b + 1] + 256 * bytes[b + 2], bytes[b + 3], bytes[b + 4], bytes[b + 5])]

\* (unsigned char*)&locn, sizeof(int): a 32-bit two's complement int, low byte
\* first; a negative n has the bytes of n + 2^31 with the top bit set.
IntToBytes(n) ==
    LET u == IF n < 0 THEN (n + 2147483647) + 1 ELSE n
        top == (u \div 16777216) + (IF n < 0 THEN 128 ELSE 0)
    IN  <<u % 256, (u \div 256) % 256, (u \div 65536) % 256, top>>

BytesToInt(b) ==
    LET low == b[1] + 256 * b[2] + 65536 * b[3]
    IN  IF b[4] >= 128
        THEN ((low + 16777216 * (b[4] - 128)) - 2147483647) - 1
        ELSE low + 16777216 * b[4]

-----------------------------------------------------------------------------
(* HistoryFile: an append-only byte log, read through mmap or read(2).     *)
(* data is the content of the temporary file; fileMap is 0 when the file   *)
(* is not mapped and otherwise the number of bytes the mapping covers.     *)

NewHistoryFile == [data |-> <<>>, length |-> 0, fileMap |-> 0, readWriteBalance |-> 0]

\* mmap(0, _length, ...) fails when the system refuses it (mmapOk = FALSE) and
\* always when _length is 0.
map(f, mmapOk) ==
    IF mmapOk /\ f.length > 0
    THEN [f EXCEPT !.fileMap = f.length]
    ELSE [f EXCEPT !.readWriteBalance = 0, !.fileMap = 0]

unmap(f) == [f EXCEPT !.fileMap = 0]

isMapped(f) == f.fileMap # 0

\* add whose _length advances by the requested count whatever write reports
add_rc_AdvancesByCount(f, buffer, seekOk, rc) ==
    LET g == IF f.fileMap # 0 THEN unmap(f) ELSE f
    IN  [g EXCEPT !.readWriteBalance = @ + 1,
                  !.data = SubSeq(@, 1, g.length) \o SubSeq(buffer, 1, qMax(rc, 0)),
                  !.length = @ + Len(buffer)]

\* HistoryFile::add(buffer, count): seekOk is whether lseek to _length succeeds,
\* rc what write returns (negative on failure, else the bytes written)
add_rc(f, buffer, seekOk, rc) ==
    LET g == IF f.fileMap # 0 THEN unmap(f) ELSE f
        g1 == [g EXCEPT !.readWriteBalance = @ + 1]
    IN  IF ~seekOk THEN g1
        ELSE IF rc < 0 THEN g1
        ELSE [g1 EXCEPT !.data = SubSeq(@, 1, g.length) \o SubSeq(buffer, 1, rc),
                        !.length = @ + rc]

\* add without the unmap of a mapped file: the mapping keeps its old length
add_KeepMapping(f, buffer) ==
    [f EXCEPT !.readWriteBalance = @ + 1,
              !.data = SubSeq(@, 1, f.length) \o buffer,
              !.length = @ + Len(buffer)]

\* add when lseek succeeds and write writes all count bytes
add(f, buffer) == add_rc(f, buffer, TRUE, Len(buffer))

\* The byte the mapping shows at offset off (0-based); a byte outside the
\* mapped range is whatever the buffer held.
MappedByte(g, off, old) ==
    IF off >= 0 /\ off < g.fileMap /\ off < Len(g.data) THEN g.data[off + 1] ELSE old

\* get that maps an unmapped file at every read, whatever the balance
get_MapsAtOnce(f, buffer, loc, mmapOk) ==
    LET size == Len(buffer)
        g0 == [f EXCEPT !.readWriteBalance = @ - 1]
        g == IF g0.fileMap = 0 THEN map(g0, mmapOk) ELSE g0
    IN  [file |-> g,
         buffer |-> [i \in 1..size |-> MappedByte(g, loc + i - 1, buffer[i])]]

\* get(buffer, size, loc): buffer is the caller's buffer (size bytes, with the
\* content it had before the call); returns the file and the buffer afterwards.
get(f, buffer, loc, mmapOk) ==
    LET size == Len(buffer)
        g0 == [f EXCEPT !.readWriteBalance = @ - 1]
        g == IF g0.fileMap = 0 /\ g0.readWriteBalance < MAP_THRESHOLD
             THEN map(g0, mmapOk) ELSE g0
        rc == IF loc < 0 \/ loc >= Len(g.data) THEN 0 ELSE qMin(size, Len(g.data) - loc)
    IN  [file |-> g,
         buffer |-> IF g.fileMap # 0
                    THEN [i \in 1..size |-> MappedByte(g, loc + i - 1, buffer[i])]
                    ELSE [i \in 1..size |-> IF i <= rc THEN g.data[loc + i] ELSE buffer[i]]]

len(f) == f.length

-----------------------------------------------------------------------------
(* HistoryScrollFile: three HistoryFiles (index, cells, lineflags).        *)
(* A read operation returns [h |-> the object afterwards, ret |-> result]. *)
(* junk is the value an uninitialised byte of a local buffer holds.        *)

Uninit(n, junk) == [i \in 1..n |-> junk]

NewHistoryScrollFile(id) ==
    [kind |-> "File", id |-> id,
     index |-> NewHistoryFile, cells |-> NewHistoryFile, lineflags |-> NewHistoryFile]

File_getLines(h) == len(h.index) \div SizeofInt

File_startOfLine(h, lineno, mmapOk, junk) ==
    IF lineno <= 0 THEN [h |-> h, ret |-> 0]
    ELSE IF lineno <= File_getLines(h)
    THEN LET ix == IF ~isMapped(h.index) THEN map(h.index, mmapOk) ELSE h.index
             r == get(ix, Uninit(SizeofInt, junk), (lineno - 1) * SizeofInt, mmapOk)
         IN  [h |-> [h EXCEPT !.index = r.file], ret |-> BytesToInt(r.buffer)]
    ELSE [h |-> h, ret |-> len(h.cells)]

File_getLineLen(h, lineno, mmapOk, junk) ==
    LET a == File_startOfLine(h, lineno + 1, mmapOk, junk)
        b == File_startOfLine(a.h, lineno, mmapOk, junk)
    IN  [h |-> b.h, ret |-> (a.ret - b.ret) \div SizeofCharacter]

File_isWrappedLine(h, lineno, mmapOk, junk) ==
    IF lineno >= 0 /\ lineno <= File_getLines(h)
    THEN LET r == get(h.lineflags, Uninit(1, junk), lineno, mmapOk)
         IN  [h |-> [h EXCEPT !.lineflags = r.file], ret |-> (r.buffer[1] # 0)]
    ELSE [h |-> h, ret |-> FALSE]

\* res is the caller's Character buffer seen as bytes; ret is that buffer afterwards
File_getCells(h, lineno, colno, count, mmapOk, junk) ==
    LET s == File_startOfLine(h, lineno, mmapOk, junk)
        r == get(s.h.cells, Uninit(count * SizeofCharacter, junk),
                 s.ret + colno * SizeofCharacter, mmapOk)
    IN  [h |-> [s.h EXCEPT !.cells = r.file], ret |-> BytesToChars(r.buffer)]

File_addCells(h, text) == [h EXCEPT !.cells = add(@, CharsToBytes(text))]

File_addLine(h, previousWrapped) ==
    LET ix == IF isMapped(h.index) THEN unmap(h.index) ELSE h.index
        locn == len(h.cells)
        flags == IF previousWrapped THEN 1 ELSE 0
    IN  [h EXCEPT !.index = add(ix, IntToBytes(locn)),
                  !.lineflags = add(@, <<flags>>)]

-----------------------------------------------------------------------------
(* HistoryScrollNone *)

NewHistoryScrollNone(id) == [kind |-> "None", id |-> id]

-----------------------------------------------------------------------------
(* CompactHistoryBlockList: the allocator of the compact lines. A block is  *)
(* known by its address blockStart; tail is the offset of the first free    *)
(* byte. A pointer is a block address and an offset in that block.          *)

NullPtr == [block |-> 0, offset |-> 0]

NewCompactHistoryBlock(blockStart) ==
    [blockStart |-> blockStart, tail |-> 0, allocCount |-> 0]

remaining(b) == BlockLength - b.tail

contains(b, ptr) ==
    ptr.block = b.blockStart /\ ptr.offset >= 0 /\ ptr.offset < BlockLength

isInUse(b) == b.allocCount # 0

\* CompactHistoryBlock::allocate(size)
Block_allocate(b, size) ==
    IF b.tail + size > BlockLength
    THEN [block |-> b, ptr |-> NullPtr]
    ELSE [block |-> [b EXCEPT !.tail = @ + size, !.allocCount = @ + 1],
          ptr |-> [block |-> b.blockStart, offset |-> b.tail]]

\* CompactHistoryBlock::deallocate()
Block_deallocate(b) == [b EXCEPT !.allocCount = @ - 1]

\* the address mmap gives a new block: one that no block of the list has
NewBlockAddress(list) ==
    CHOOSE a \in 1..(Len(list) + 1) : \A i \in 1..Len(list) : list[i].blockStart # a

\* CompactHistoryBlockList::allocate(size)
allocate(list, size) ==
    LET l1 == IF Len(list) = 0 \/ remaining(list[Len(list)]) < size
              THEN Append(list, NewCompactHistoryBlock(NewBlockAddress(list)))
              ELSE list
        r == Block_allocate(l1[Len(l1)], size)
    IN  [list |-> [l1 EXCEPT ![Len(l1)] = r.block], ptr |-> r.ptr]

\* list.removeAt(i)
removeAt(list, i) == SubSeq(list, 1, i - 1) \o SubSeq(list, i + 1, Len(list))

\* deallocate that leaves a block whose counter reached zero in the list
deallocate_KeepsEmptyBlock(list, ptr) ==
    LET found == {i \in 1..Len(list) : contains(list[i], ptr)}
    IN  IF found = {} THEN list
        ELSE LET i == CHOOSE k \in found : \A m \in found : k <= m
             IN  [list EXCEPT ![i] = Block_deallocate(list[i])]

\* CompactHistoryBlockList::deallocate(ptr). When no block contains ptr the
\* scan runs off the list (Q_ASSERT(i < list.size())): the list is left as it is.
deallocate(list, ptr) ==
    LET found == {i \in 1..Len(list) : contains(list[i], ptr)}
    IN  IF found = {} THEN list
        ELSE LET i == CHOOSE k \in found : \A m \in found : k <= m
                 block == Block_deallocate(list[i])
             IN  IF ~isInUse(block) THEN removeAt(list, i)
                 ELSE [list EXCEPT ![i] = block]

-----------------------------------------------------------------------------
(* CompactHistoryLine: the text of a line and its formats, run-length      *)
(* encoded. Columns are 0-based as in the code; sequences are 1-based.     *)
(* The loops over the cells of a line are folded by halving the range so   *)
(* that lines longer than LINE_SIZE can be evaluated.                      *)

setFormat(c, startPos) ==
    [startPos |-> startPos, rendition |-> c.rendition,
     fgColor |-> c.foregroundColor, bgColor |-> c.backgroundColor]

\* body of the loop that counts the formats of the line, at column k
CountFormatsStep(line, st, k) ==
    IF ~equalsFormat(line[k + 1], st.c)
    THEN [c |-> line[k + 1], formatLength |-> st.formatLength + 1]
    ELSE st

RECURSIVE CountFormats(_, _, _, _)
CountFormats(line, st, lo, hi) ==
    IF lo > hi THEN st
    ELSE IF lo = hi THEN CountFormatsStep(line, st, lo)
    ELSE LET mid == (lo + hi) \div 2
             left == CountFormats(line, st, lo, mid)
         IN  IF left.formatLength >= 1     \* columns lo..mid are done first
             THEN CountFormats(line, left, mid + 1, hi)
             ELSE left

\* body of the loop that records the formats, at column k (the loop runs
\* while k < length && j < formatLength)
RecordFormatsStep(line, formatLength, st, k) ==
    IF st.j < formatLength /\ ~equalsFormat(line[k + 1], st.c)
    THEN [c |-> line[k + 1], j |-> st.j + 1,
          formatArray |-> Append(st.formatArray, setFormat(line[k + 1], k))]
    ELSE st

RECURSIVE RecordFormats(_, _, _, _, _)
RecordFormats(line, formatLength, st, lo, hi) ==
    IF lo > hi THEN st
    ELSE IF lo = hi THEN RecordFormatsStep(line, formatLength, st, lo)
    ELSE LET mid == (lo + hi) \div 2
             left == RecordFormats(line, formatLength, st, lo, mid)
         IN  IF left.j >= 1                \* columns lo..mid are done first
             THEN RecordFormats(line, formatLength, left, mid + 1, hi)
             ELSE left

\* CompactHistoryLine::CompactHistoryLine(line, blockList). The constructor sets
\* wrapped only for a non-empty line: junkWrapped is what the member holds otherwise.
CompactHistoryLine(line, junkWrapped) ==
    LET length == Len(line)
    IN  IF length > 0
        THEN LET counted == CountFormats(line, [c |-> line[1], formatLength |-> 1],
                                         1, length - 1)
                 formatLength == counted.formatLength
                 recorded == RecordFormats(line, formatLength,
                                 [c |-> line[1], j |-> 1,
                                  formatArray |-> <<setFormat(line[1], 0)>>],
                                 1, length - 1)
             IN  [length |-> length, formatLength |-> formatLength,
                  formatArray |-> recorded.formatArray,
                  text |-> [i \in 1..length |-> line[i].character],
                  wrapped |-> FALSE]
        ELSE [length |-> 0, formatLength |-> 0, formatArray |-> <<>>, text |-> <<>>,
              wrapped |-> junkWrapped]

\* new(blockList) CompactHistoryLine(line, blockList): operator new allocates
\* the line object, the constructor allocates formatArray and text for a
\* non-empty line only (the two pointers are not set otherwise).
NewLine(list, line, junkWrapped) ==
    LET l == CompactHistoryLine(line, junkWrapped)
        a0 == allocate(list, SizeofCompactHistoryLine)
        a1 == allocate(a0.list, SizeofCharacterFormat * l.formatLength)
        a2 == allocate(a1.list, SizeofQuint16 * Len(line))
    IN  IF Len(line) > 0
        THEN [list |-> a2.list,
              line |-> [length |-> l.length, formatLength |-> l.formatLength,
                        formatArray |-> l.formatArray, text |-> l.text,
                        wrapped |-> l.wrapped,
                        this |-> a0.ptr, formatArrayAt |-> a1.ptr, textAt |-> a2.ptr]]
        ELSE [list |-> a0.list,
              line |-> [length |-> l.length, formatLength |-> l.formatLength,
                        formatArray |-> l.formatArray, text |-> l.text,
                        wrapped |-> l.wrapped,
                        this |-> a0.ptr, formatArrayAt |-> NullPtr, textAt |-> NullPtr]]

\* the destructor without the release of the line object itself
DeleteLine_KeepsHeader(list, l) ==
    IF l.length > 0
    THEN deallocate(deallocate(list, l.textAt), l.formatArrayAt)
    ELSE list

\* CompactHistoryLine::~CompactHistoryLine()
DeleteLine(list, l) ==
    LET d == IF l.length > 0
             THEN deallocate(deallocate(list, l.textAt), l.formatArrayAt)
             ELSE list
    IN  deallocate(d, l.this)

RECURSIVE FormatPos(_, _, _)
FormatPos(l, index, formatPos) ==
    IF (formatPos + 1) < l.formatLength /\ index >= l.formatArray[formatPos + 2].startPos
    THEN FormatPos(l, index, formatPos + 1)
    ELSE formatPos

\* getCharacter without the search for the run that covers index
getCharacter_FirstRun(l, index) ==
    Char(l.text[index + 1], l.formatArray[1].rendition,
         l.formatArray[1].fgColor, l.formatArray[1].bgColor)

getCharacter(l, index) ==
    LET formatPos == FormatPos(l, index, 0)
    IN  Char(l.text[index + 1], l.formatArray[formatPos + 1].rendition,
             l.formatArray[formatPos + 1].fgColor, l.formatArray[formatPos + 1].bgColor)

getCharacters(l, size, startColumn) ==
    [i \in 1..size |-> getCharacter(l, startColumn + i - 1)]

-----------------------------------------------------------------------------
(* CompactHistoryScroll *)

\* lines.takeAt(0) without the delete: the line's allocations are never released
takeFirst_NoDelete(h) == [h EXCEPT !.lines = Tail(@)]

\* delete lines.takeAt(0)
takeFirst(h) ==
    [h EXCEPT !.lines = Tail(@), !.blockList = DeleteLine(@, h.lines[1])]

RECURSIVE EvictOver(_, _)
EvictOver(h, lineCount) ==
    IF Len(h.lines) > lineCount THEN EvictOver(takeFirst(h), lineCount) ELSE h

Compact_setMaxNbLines(h, lineCount) ==
    EvictOver([h EXCEPT !.maxLineCount = lineCount], lineCount)

NewCompactHistoryScroll(id, maxLineCount) ==
    Compact_setMaxNbLines([kind |-> "Compact", id |-> id, lines |-> <<>>,
                           blockList |-> <<>>, maxLineCount |-> 0], maxLineCount)

\* addCellsVector that, when over capacity, evicts the oldest line and drops the new one
Compact_addCellsVector_DropsWhenFull(h, cells, junkWrapped) ==
    LET n == NewLine(h.blockList, cells, junkWrapped)
    IN  IF Len(h.lines) > h.maxLineCount
        THEN takeFirst(h)
        ELSE [h EXCEPT !.blockList = n.list, !.lines = Append(@, n.line)]

Compact_addCellsVector(h, cells, junkWrapped) ==
    LET n == NewLine(h.blockList, cells, junkWrapped)
        h1 == [h EXCEPT !.blockList = n.list]
        h2 == IF Len(h1.lines) > h1.maxLineCount THEN takeFirst(h1) ELSE h1
    IN  [h2 EXCEPT !.lines = Append(@, n.line)]

Compact_addCells(h, a, junkWrapped) == Compact_addCellsVector(h, a, junkWrapped)

Compact_addLine(h, previousWrapped) ==
    [h EXCEPT !.lines[Len(h.lines)].wrapped = previousWrapped]

Compact_getLines(h) == Len(h.lines)

Compact_getLineLen(h, lineNumber) == h.lines[lineNumber + 1].length

\* the first count cells of the caller's buffer after the call
Compact_getCells(h, lineNumber, startColumn, count) ==
    IF count = 0 THEN <<>>
    ELSE getCharacters(h.lines[lineNumber + 1], count, startColumn)

Compact_isWrappedLine(h, lineNumber) == h.lines[lineNumber + 1].wrapped

-----------------------------------------------------------------------------
(* The virtual interface of HistoryScroll, dispatched on the object's kind. *)
(* Reads return [h |-> the object afterwards, ret |-> the result].          *)

getLines(h) ==
    CASE h.kind = "File" -> File_getLines(h)
      [] h.kind = "Compact" -> Compact_getLines(h)
      [] OTHER -> 0

getLineLen(h, lineno, mmapOk, junk) ==
    CASE h.kind = "File" -> File_getLineLen(h, lineno, mmapOk, junk)
      [] h.kind = "Compact" -> [h |-> h, ret |-> Compact_getLineLen(h, lineno)]
      [] OTHER -> [h |-> h, ret |-> 0]

isWrappedLine(h, lineno, mmapOk, junk) ==
    CASE h.kind = "File" -> File_isWrappedLine(h, lineno, mmapOk, junk)
      [] h.kind = "Compact" -> [h |-> h, ret |-> Compact_isWrappedLine(h, lineno)]
      [] OTHER -> [h |-> h, ret |-> FALSE]

getCells(h, lineno, colno, count, mmapOk, junk) ==
    CASE h.kind = "File" -> File_getCells(h, lineno, colno, count, mmapOk, junk)
      [] h.kind = "Compact" -> [h |-> h, ret |-> Compact_getCells(h, lineno, colno, count)]
      [] OTHER -> [h |-> h, ret |-> <<>>]

\* A line as a caller reads it: getLineLen, then getCells over the whole line,
\* then isWrappedLine.
ReadLine(h, lineno, mmapOk, junk) ==
    LET n == getLineLen(h, lineno, mmapOk, junk)
        c == getCells(n.h, lineno, 0, n.ret, mmapOk, junk)
        w == isWrappedLine(c.h, lineno, mmapOk, junk)
    IN  [cells |-> c.ret, wrapped |-> w.ret]

ReadLines(h, mmapOk, junk) ==
    [i \in 1..getLines(h) |-> ReadLine(h, i - 1, mmapOk, junk)]

addCells(h, text, junkWrapped) ==
    CASE h.kind = "File" -> File_addCells(h, text)
      [] h.kind = "Compact" -> Compact_addCells(h, text, junkWrapped)
      [] OTHER -> h

addLine(h, previousWrapped) ==
    CASE h.kind = "File" -> File_addLine(h, previousWrapped)
      [] h.kind = "Compact" -> Compact_addLine(h, previousWrapped)
      [] OTHER -> h

-----------------------------------------------------------------------------
(* HistoryType::scroll. Each returns [ret |-> the object returned,          *)
(* deleted |-> identities of the objects it deleted, log |-> the lines it   *)
(* handed to a new object with addCells/addLine].                           *)

HistoryTypeNone_scroll(old, id) ==
    [ret |-> NewHistoryScrollNone(id), deleted |-> {old.id}, log |-> <<>>]

\* dynamic_cast<HistoryFile*>(old): HistoryScrollFile holds HistoryFile members
\* but no HistoryScroll class derives from HistoryFile, so the cast yields 0.
dynamic_cast_HistoryFile(old) == FALSE

\* The size cells that getCells stored into a buffer of `capacity` cells, as
\* addCells reads them back: cells past the capacity are not the line's.
ThroughBuffer(cells, capacity, junkCell) ==
    [i \in 1..Len(cells) |-> IF i <= capacity THEN cells[i] ELSE junkCell]

\* The stack buffer used for every line, whatever its size
BufferCapacity_StackOnly(size) == LINE_SIZE

\* Character line[LINE_SIZE], or new Character[size] when size > LINE_SIZE
BufferCapacity(size) == IF size > LINE_SIZE THEN size ELSE LINE_SIZE

RECURSIVE CopyLines(_, _, _, _, _, _, _)
CopyLines(old, newScroll, log, i, lines, mmapOk, junk) ==
    IF i >= lines THEN [old |-> old, newScroll |-> newScroll, log |-> log]
    ELSE LET sz == getLineLen(old, i, mmapOk, junk)
             size == sz.ret
             capacity == BufferCapacity(size)
             gc == getCells(sz.h, i, 0, size, mmapOk, junk)
             line == ThroughBuffer(gc.ret, capacity, Char(junk, junk, junk, junk))
             withCells == File_addCells(newScroll, line)
             wr == isWrappedLine(gc.h, i, mmapOk, junk)
             withLine == File_addLine(withCells, wr.ret)
         IN  CopyLines(wr.h, withLine, Append(log, [cells |-> line, wrapped |-> wr.ret]),
                       i + 1, lines, mmapOk, junk)

HistoryTypeFile_scroll(old, id, mmapOk, junk) ==
    IF dynamic_cast_HistoryFile(old)
    THEN [ret |-> old, deleted |-> {}, log |-> <<>>]
    ELSE LET copied == CopyLines(old, NewHistoryScrollFile(id), <<>>, 0, getLines(old),
                                 mmapOk, junk)
         IN  [ret |-> copied.newScroll, deleted |-> {old.id}, log |-> copied.log]

CompactHistoryType_scroll(old, id, m_nbLines) ==
    IF old.kind = "Compact"
    THEN [ret |-> Compact_setMaxNbLines(old, m_nbLines), deleted |-> {}, log |-> <<>>]
    ELSE [ret |-> NewCompactHistoryScroll(id, m_nbLines), deleted |-> {old.id}, log |-> <<>>]

-----------------------------------------------------------------------------
(* Inputs *)

CellA == Char(97, 0, 7, 0)
CellB == Char(98, 1, 7, 0)
CellW == Char(300, 0, 2, 1)

\* lines the producer writes in Spec
TextLines == {<<>>, <<CellA, CellW>>}

\* a line one cell longer than the copy buffer of HistoryTypeFile::scroll
LongLine == [i \in 1..(LINE_SIZE + 1) |-> IF i <= LINE_SIZE THEN CellA ELSE CellW]

LongLines == {<<>>, LongLine}

\* lines that fill a block of the compact store's allocator, and lines that do not
SlabLines == {<<>>, <<CellA, CellW>>, LongLine}

\* every pattern of characters and formats over lines of at most MaxLen cells
FormatCells == {CellA, Char(99, 0, 7, 0), CellB, CellW}

FormatLines == UNION {[1..n -> FormatCells] : n \in 0..MaxLen}

UninitBytes == {0, 255}

NoScroll == [kind |-> "Null", id |-> 0, lines |-> <<>>, deleted |-> FALSE]

\* The address of an object constructed while old is alive: not the address of
\* old (the address of an object deleted earlier may be handed out again).
NewAddress(old) == IF old.id = 1 THEN 2 ELSE 1

-----------------------------------------------------------------------------
(* State machine of a HistoryFile used on its own: appends whose lseek or   *)
(* write may fail or write less than asked, reads whose mmap may fail.      *)

FileBytes == {1, 2}

FileBuffers == UNION {[1..n -> FileBytes] : n \in 0..MaxCount}

\* The file as constructed
IdleFile ==
    /\ file = NewHistoryFile
    /\ fileLog = <<>>

FileStep(f, log, op) ==
    /\ file' = f
    /\ fileLog' = log
    /\ lastOp' = op
    /\ UNCHANGED <<storeState, winVars>>

FileAdd ==
    \E buffer \in FileBuffers, seekOk \in BOOLEAN :
        \E rc \in -1..Len(buffer) :
            /\ ~seekOk => rc = -1
            /\ file.readWriteBalance < MaxWrites
            /\ len(file) + Len(buffer) <= MaxFileLength
            /\ FileStep(add_rc(file, buffer, seekOk, rc),
                        fileLog \o SubSeq(buffer, 1, qMax(rc, 0)),
                        [op |-> "HistoryFile::add", ret |-> rc, count |-> Len(buffer)])

FileGet ==
    \E size \in 0..MaxCount, mmapOk \in BOOLEAN :
        \E loc \in 0..(len(file) - size) :
            LET r == get(file, Uninit(size, 0), loc, mmapOk)
            IN  /\ file.readWriteBalance > 0 - MaxReads
                /\ FileStep(r.file, fileLog,
                            [op |-> "HistoryFile::get", ret |-> 0, buffer |-> r.buffer,
                             loc |-> loc, mmapOk |-> mmapOk])

\* index.map() as HistoryScrollFile::startOfLine calls it
FileMap ==
    \E mmapOk \in BOOLEAN :
        /\ ~isMapped(file)
        /\ FileStep(map(file, mmapOk), fileLog, [op |-> "HistoryFile::map", ret |-> 0])

NextFile ==
    \/ FileAdd
    \/ FileGet
    \/ FileMap

-----------------------------------------------------------------------------
(* State machine of the history store *)

InitStore ==
    /\ history = NewHistoryScrollNone(1)
    /\ oldScroll = NoScroll
    /\ written = <<>>
    /\ pending = <<>>
    /\ reads = 0
    /\ lastOp = [op |-> "init", ret |-> 0]

\* HistoryScroll::addCells(text, count): first half of the producer's pair
AddCells(texts) ==
    \E text \in texts, junkWrapped \in BOOLEAN :
        /\ pending = <<>>
        /\ Len(written) < MaxWrites
        /\ (history.kind # "Compact" \/ Len(text) = 0) => ~junkWrapped
        /\ history' = addCells(history, text, junkWrapped)
        /\ pending' = <<text>>
        /\ oldScroll' = NoScroll
        /\ lastOp' = [op |-> "addCells", ret |-> 0]
        /\ UNCHANGED <<written, reads, winVars, fileVars>>

\* HistoryScroll::addLine(previousWrapped): second half of the pair
AddLine ==
    \E previousWrapped \in BOOLEAN :
        /\ pending # <<>>
        /\ history' = addLine(history, previousWrapped)
        /\ written' = Append(written, [cells |-> pending[1], wrapped |-> previousWrapped])
        /\ pending' = <<>>
        /\ oldScroll' = NoScroll
        /\ lastOp' = [op |-> "addLine", ret |-> 0]
        /\ UNCHANGED <<reads, winVars, fileVars>>

\* CompactHistoryScroll::setMaxNbLines(lineCount), between complete lines
SetMaxNbLines ==
    \E lineCount \in 0..MaxCap :
        /\ history.kind = "Compact"
        /\ pending = <<>>
        /\ history' = Compact_setMaxNbLines(history, lineCount)
        /\ oldScroll' = NoScroll
        /\ lastOp' = [op |-> "setMaxNbLines", ret |-> lineCount]
        /\ UNCHANGED <<written, pending, reads, winVars, fileVars>>

GetLineLen ==
    \E lineno \in 0..(getLines(history) - 1), mmapOk \in BOOLEAN :
        /\ reads < MaxReads
        /\ LET r == getLineLen(history, lineno, mmapOk, 0)
           IN  /\ history' = r.h
               /\ lastOp' = [op |-> "getLineLen", ret |-> 0]
        /\ reads' = reads + 1
        /\ oldScroll' = NoScroll
        /\ UNCHANGED <<written, pending, winVars, fileVars>>

IsWrappedLine ==
    \E lineno \in 0..(getLines(history) - 1), mmapOk \in BOOLEAN :
        /\ reads < MaxReads
        /\ LET r == isWrappedLine(history, lineno, mmapOk, 0)
           IN  /\ history' = r.h
               /\ lastOp' = [op |-> "isWrappedLine", ret |-> 0]
        /\ reads' = reads + 1
        /\ oldScroll' = NoScroll
        /\ UNCHANGED <<written, pending, winVars, fileVars>>

\* getCells(lineno, 0, getLineLen(lineno), res) as the callers read a line
GetCells ==
    \E lineno \in 0..(getLines(history) - 1), mmapOk \in BOOLEAN :
        /\ reads < MaxReads
        /\ LET n == getLineLen(history, lineno, mmapOk, 0)
               r == getCells(n.h, lineno, 0, n.ret, mmapOk, 0)
           IN  /\ history' = r.h
               /\ lastOp' = [op |-> "getCells", ret |-> 0]
        /\ reads' = reads + 1
        /\ oldScroll' = NoScroll
        /\ UNCHANGED <<written, pending, winVars, fileVars>>

\* history = type.scroll(history), between complete lines
Scroll(call) ==
    /\ pending = <<>>
    /\ history' = call.ret
    /\ oldScroll' = [kind |-> history.kind, id |-> history.id,
                     lines |-> ReadLines(history, TRUE, 0),
                     deleted |-> history.id \in call.deleted]
    /\ written' = IF call.ret.id = history.id THEN written ELSE call.log
    /\ reads' = IF call.ret.id = history.id THEN reads ELSE 0
    /\ lastOp' = [op |-> "scroll", ret |-> call.ret.id]
    /\ UNCHANGED <<pending, winVars, fileVars>>

ScrollNone ==
    /\ Scroll(HistoryTypeNone_scroll(history, NewAddress(history)))

ScrollFile ==
    \E mmapOk \in BOOLEAN, junk \in UninitBytes :
        /\ history.kind # "File" => (mmapOk /\ junk = 0)
        /\ Scroll(HistoryTypeFile_scroll(history, NewAddress(history), mmapOk, junk))

ScrollCompact ==
    \E m_nbLines \in 0..MaxCap :
        /\ Scroll(CompactHistoryType_scroll(history, NewAddress(history), m_nbLines))

\* getCells(lineno, colno, count, res) over any range inside a line
GetCellsRange ==
    \E lineno \in 0..(getLines(history) - 1), mmapOk \in BOOLEAN :
        LET n == getLineLen(history, lineno, mmapOk, 0)
        IN  \E colno \in 0..n.ret :
                \E count \in 0..(n.ret - colno) :
                    LET r == getCells(n.h, lineno, colno, count, mmapOk, 0)
                    IN  /\ reads < MaxReads
                        /\ history' = r.h
                        /\ lastOp' = [op |-> "getCellsRange",
                                      ret |-> <<lineno, colno, r.ret>>]
                        /\ reads' = reads + 1
                        /\ oldScroll' = NoScroll
                        /\ UNCHANGED <<written, pending, winVars, fileVars>>

-----------------------------------------------------------------------------
(* Screen: the collaborator whose history and screen lines the window shows. *)
(* Only what ScreenWindow calls is kept: the line and column counts and the  *)
(* single selection, in global line coordinates.                             *)

NoPosition == [column |-> -1, line |-> -1]

Position(column, line) == [column |-> column, line |-> line]

NewScreen(lines, columns) ==
    [histLines |-> 0, lines |-> lines, columns |-> columns,
     selBegin |-> NoPosition, selEnd |-> NoPosition]

Screen_setSelectionStart(s, column, line) ==
    [s EXCEPT !.selBegin = Position(column, line)]

Screen_setSelectionEnd(s, column, line) ==
    [s EXCEPT !.selEnd = Position(column, line)]

Screen_clearSelection(s) ==
    [s EXCEPT !.selBegin = NoPosition, !.selEnd = NoPosition]

NotAfter(a, b) == a.line < b.line \/ (a.line = b.line /\ a.column <= b.column)

Screen_isSelected(s, column, line) ==
    LET p == Position(column, line)
    IN  /\ s.selBegin # NoPosition
        /\ s.selEnd # NoPosition
        /\ \/ NotAfter(s.selBegin, p) /\ NotAfter(p, s.selEnd)
           \/ NotAfter(s.selEnd, p) /\ NotAfter(p, s.selBegin)

\* The cell the Screen renders at a global line and a column
ScreenCell(s, line, column) ==
    [line |-> line, column |-> column, selected |-> Screen_isSelected(s, column, line)]

DefaultChar == [line |-> -1, column |-> -1, selected |-> FALSE]

\* Screen::getImage(dest, size, startLine, endLine): the cells of the lines
\* startLine..endLine, row by row
Screen_getImage(s, startLine, endLine) ==
    [i \in 1..((endLine - startLine + 1) * s.columns) |->
        ScreenCell(s, startLine + ((i - 1) \div s.columns), (i - 1) % s.columns)]

-----------------------------------------------------------------------------
(* ScreenWindow *)

NullBuffer == [allocated |-> FALSE, cells |-> <<>>]

NewScreenWindow ==
    [_windowBuffer |-> NullBuffer, _windowBufferSize |-> 0, _bufferNeedsUpdate |-> TRUE,
     _windowLines |-> 1, _currentLine |-> 0, _currentResultLine |-> -1,
     _trackOutput |-> TRUE, _scrollCount |-> 0]

Signal(name, arg) == [signal |-> name, arg |-> arg]

windowLines(w) == w._windowLines

windowColumns(s) == s.columns

lineCount(s) == s.histLines + s.lines

\* The stored field, returned without bounding it
currentLine_Field(w, s) == w._currentLine

currentLine(w, s) ==
    qBound(0, w._currentLine, qMax(0, lineCount(s) - windowLines(w)))

endWindowLine(w, s) ==
    qMin(currentLine(w, s) + windowLines(w) - 1, lineCount(s) - 1)

atEndOfOutput(w, s) == currentLine(w, s) = lineCount(s) - windowLines(w)

\* Screen::fillWithDefaultChar on the last charsToFill cells of the buffer
fillUnusedArea(w, s) ==
    LET screenEndLine == s.histLines + s.lines - 1
        windowEndLine == currentLine(w, s) + windowLines(w) - 1
        unusedLines == windowEndLine - screenEndLine
        charsToFill == unusedLines * windowColumns(s)
    IN  IF unusedLines <= 0
        THEN w
        ELSE [w EXCEPT !._windowBuffer.cells =
                 [i \in 1..Len(@) |->
                     IF i > w._windowBufferSize - charsToFill THEN DefaultChar ELSE @[i]]]

getImage(w, s) ==
    LET size == windowLines(w) * windowColumns(s)
        w1 == IF ~w._windowBuffer.allocated \/ w._windowBufferSize # size
              THEN [w EXCEPT !._windowBufferSize = size,
                             !._windowBuffer = [allocated |-> TRUE,
                                                cells |-> [i \in 1..size |-> DefaultChar]],
                             !._bufferNeedsUpdate = TRUE]
              ELSE w
        image == Screen_getImage(s, currentLine(w1, s), endWindowLine(w1, s))
        w2 == [w1 EXCEPT !._windowBuffer.cells =
                  [i \in 1..Len(@) |-> IF i <= Len(image) THEN image[i] ELSE @[i]]]
        w3 == [fillUnusedArea(w2, s) EXCEPT !._bufferNeedsUpdate = FALSE]
    IN  IF ~w1._bufferNeedsUpdate THEN w1 ELSE w3

\* The Screen's position, returned in global coordinates
getSelectionStart_Global(w, s) == Position(s.selBegin.column, s.selBegin.line)

getSelectionStart(w, s) ==
    Position(s.selBegin.column, s.selBegin.line - currentLine(w, s))

getSelectionEnd(w, s) ==
    Position(s.selEnd.column, s.selEnd.line - currentLine(w, s))

setSelectionStart(w, s, column, line) ==
    [win |-> [w EXCEPT !._bufferNeedsUpdate = TRUE],
     screen |-> Screen_setSelectionStart(s, column, line + currentLine(w, s)),
     emitted |-> <<Signal("selectionChanged", 0)>>]

setSelectionEnd(w, s, column, line) ==
    [win |-> [w EXCEPT !._bufferNeedsUpdate = TRUE],
     screen |-> Screen_setSelectionEnd(s, column, line + currentLine(w, s)),
     emitted |-> <<Signal("selectionChanged", 0)>>]

clearSelection(w, s) ==
    [win |-> w,
     screen |-> Screen_clearSelection(s),
     emitted |-> <<Signal("selectionChanged", 0)>>]

setSelectionByLineRange(w, s, start, end) ==
    LET c == clearSelection(w, s)
        s1 == Screen_setSelectionStart(c.screen, 0, start)
        s2 == Screen_setSelectionEnd(s1, windowColumns(s1), end)
    IN  [win |-> [c.win EXCEPT !._bufferNeedsUpdate = TRUE],
         screen |-> s2,
         emitted |-> c.emitted \o <<Signal("selectionChanged", 0)>>]

isSelected(w, s, column, line) ==
    Screen_isSelected(s, column, qMin(line + currentLine(w, s), endWindowLine(w, s)))

setWindowLines(w, lines) == [w EXCEPT !._windowLines = lines]

\* scrollTo that moves the anchor and leaves the cached image as it is
scrollTo_KeepsCache(w, s, line) ==
    LET maxCurrentLineNumber == lineCount(s) - windowLines(w)
        bounded == qBound(0, line, maxCurrentLineNumber)
        delta == bounded - w._currentLine
        w1 == [w EXCEPT !._currentLine = bounded,
                        !._scrollCount = @ + delta]
    IN  [win |-> w1, emitted |-> <<Signal("scrolled", w1._currentLine)>>]

\* scrollTo that emits scrolled with the line it was asked for, before bounding it
scrollTo_EmitsRequestedLine(w, s, line) ==
    LET maxCurrentLineNumber == lineCount(s) - windowLines(w)
        bounded == qBound(0, line, maxCurrentLineNumber)
        delta == bounded - w._currentLine
        w1 == [w EXCEPT !._currentLine = bounded,
                        !._scrollCount = @ + delta,
                        !._bufferNeedsUpdate = TRUE]
    IN  [win |-> w1, emitted |-> <<Signal("scrolled", line)>>]

scrollTo(w, s, line) ==
    LET maxCurrentLineNumber == lineCount(s) - windowLines(w)
        bounded == qBound(0, line, maxCurrentLineNumber)
        delta == bounded - w._currentLine
        w1 == [w EXCEPT !._currentLine = bounded,
                        !._scrollCount = @ + delta,
                        !._bufferNeedsUpdate = TRUE]
    IN  [win |-> w1, emitted |-> <<Signal("scrolled", w1._currentLine)>>]

\* while (i > 0 && amount < 0): the line reached going up over prompt_start lines
RECURSIVE PromptAbove(_, _, _)
PromptAbove(prompts, i, amount) ==
    IF i > 0 /\ amount < 0
    THEN IF (i - 1) \in prompts
         THEN IF amount + 1 = 0 THEN i - 1 ELSE PromptAbove(prompts, i - 1, amount + 1)
         ELSE PromptAbove(prompts, i - 1, amount)
    ELSE i

\* going down to the boundary whatever lines carry prompt_start
PromptBelow_ToBoundary(prompts, histLines, i, amount) ==
    IF i < histLines /\ amount > 0 THEN histLines ELSE i

\* while (i < getHistLines() && amount > 0): the line reached going down
RECURSIVE PromptBelow(_, _, _, _)
PromptBelow(prompts, histLines, i, amount) ==
    IF i < histLines /\ amount > 0
    THEN IF (i + 1) \in prompts
         THEN IF amount - 1 = 0 THEN i + 1 ELSE PromptBelow(prompts, histLines, i + 1, amount - 1)
         ELSE PromptBelow(prompts, histLines, i + 1, amount)
    ELSE i

\* prompts: the global lines whose properties carry prompt_start
scrollBy(w, s, mode, amount, fullPage, hasRepl, prompts) ==
    IF mode = "ScrollLines"
    THEN scrollTo(w, s, currentLine(w, s) + amount)
    ELSE IF mode = "ScrollPages" \/ (mode = "ScrollPrompts" /\ ~hasRepl)
    THEN IF fullPage
         THEN scrollTo(w, s, currentLine(w, s) + amount * windowLines(w))
         ELSE scrollTo(w, s, currentLine(w, s) + amount * (windowLines(w) \div 2))
    ELSE IF mode = "ScrollPrompts"
    THEN LET i == currentLine(w, s)
         IN  scrollTo(w, s, IF amount < 0 THEN PromptAbove(prompts, i, amount)
                            ELSE IF amount > 0 THEN PromptBelow(prompts, s.histLines, i, amount)
                            ELSE i)
    ELSE [win |-> w, emitted |-> <<>>]

setTrackOutput(w, trackOutput) == [w EXCEPT !._trackOutput = trackOutput]

resetScrollCount(w) == [w EXCEPT !._scrollCount = 0]

updateCurrentLine(w, s, isResize, oldTotalLines) ==
    IF ~isResize
    THEN w
    ELSE LET moved == IF w._currentLine > 0
                      THEN w._currentLine - (oldTotalLines - lineCount(s))
                      ELSE w._currentLine
         IN  [w EXCEPT !._currentLine = qBound(0, moved, lineCount(s) - windowLines(w))]

\* notifyOutputChanged taking the branch of an untracked window whatever _trackOutput is
notifyOutputChanged_NeverFollows(w, s, scrolledLines, droppedLines) ==
    [win |-> [w EXCEPT !._currentLine = qMin(qMax(0, @ - droppedLines), s.histLines),
                       !._bufferNeedsUpdate = TRUE],
     emitted |-> <<Signal("outputChanged", 0)>>]

notifyOutputChanged(w, s, scrolledLines, droppedLines) ==
    LET w1 == IF w._trackOutput
              THEN [w EXCEPT !._scrollCount = @ - scrolledLines,
                             !._currentLine = qMax(0, s.histLines - (windowLines(w) - s.lines))]
              ELSE [w EXCEPT !._currentLine =
                                 qMin(qMax(0, @ - droppedLines), s.histLines)]
    IN  [win |-> [w1 EXCEPT !._bufferNeedsUpdate = TRUE],
         emitted |-> <<Signal("outputChanged", 0)>>]

-----------------------------------------------------------------------------
(* State machine of the window over a Screen *)

ScrollModes == {"ScrollLines", "ScrollPages", "ScrollPrompts"}

Amounts == (0 - MaxAmount)..MaxAmount

GlobalLines == 0..(MaxHistLines + MaxScreenLines)

InScrollRange(w) == w._scrollCount \in (0 - MaxScrollCount)..MaxScrollCount

\* A window constructed over a Screen of any geometry and history
InitWindow ==
    /\ InitStore
    /\ IdleFile
    /\ \E h \in 0..MaxHistLines, l \in 1..MaxScreenLines, c \in 1..MaxColumns :
           screen = [NewScreen(l, c) EXCEPT !.histLines = h]
    /\ win = NewScreenWindow
    /\ emitted = <<>>

\* The window of the store specifications: constructed and left alone
IdleWin ==
    /\ screen = NewScreen(1, 1)
    /\ win = NewScreenWindow
    /\ emitted = <<>>

\* A call of the window or an event of the Screen; ret records the arguments
\* of the call that the properties refer to
WinStepRet(op, ret, w, s, e) ==
    /\ win' = w
    /\ screen' = s
    /\ emitted' = e
    /\ lastOp' = [op |-> op, ret |-> ret]
    /\ UNCHANGED <<storeState, fileVars>>

WinStep(op, w, s, e) == WinStepRet(op, 0, w, s, e)

\* A call with a position as its arguments
WinStepAt(op, column, line, w, s, e) ==
    /\ win' = w
    /\ screen' = s
    /\ emitted' = e
    /\ lastOp' = [op |-> op, ret |-> 0, column |-> column, line |-> line]
    /\ UNCHANGED <<storeState, fileVars>>

\* The terminal scrolls lines into the history, or the history drops lines
ScreenOutput ==
    \E h \in 0..MaxHistLines :
        /\ h # screen.histLines
        /\ WinStep("Screen::output", win, [screen EXCEPT !.histLines = h], <<>>)

\* The terminal is resized
ScreenResize ==
    \E l \in 1..MaxScreenLines, c \in 1..MaxColumns :
        /\ <<l, c>> # <<screen.lines, screen.columns>>
        /\ WinStep("Screen::resize", win,
                   [screen EXCEPT !.lines = l, !.columns = c], <<>>)

GetImage ==
    /\ WinStep("getImage", getImage(win, screen), screen, <<>>)

SetSelectionStart ==
    \E column \in 0..(windowColumns(screen) - 1), line \in 0..(windowLines(win) - 1) :
        LET r == setSelectionStart(win, screen, column, line)
        IN  /\ WinStepAt("setSelectionStart", column, line,
                      r.win, r.screen, r.emitted)

SetSelectionEnd ==
    \E column \in 0..(windowColumns(screen) - 1), line \in 0..(windowLines(win) - 1) :
        LET r == setSelectionEnd(win, screen, column, line)
        IN  /\ WinStepAt("setSelectionEnd", column, line,
                      r.win, r.screen, r.emitted)

SetSelectionByLineRange ==
    \E start \in 0..(lineCount(screen) - 1) :
        \E end \in start..(lineCount(screen) - 1) :
            LET r == setSelectionByLineRange(win, screen, start, end)
            IN  /\ WinStep("setSelectionByLineRange", r.win, r.screen, r.emitted)

ClearSelection ==
    LET r == clearSelection(win, screen)
    IN  /\ WinStep("clearSelection", r.win, r.screen, r.emitted)

SetWindowLines ==
    \E lines \in 1..MaxWindowLines :
        /\ WinStepRet("setWindowLines", IF lines # windowLines(win) THEN 1 ELSE 0,
                      setWindowLines(win, lines), screen, <<>>)

ScrollByLines ==
    \E amount \in Amounts :
        LET r == scrollBy(win, screen, "ScrollLines", amount, FALSE, FALSE, {})
        IN  /\ InScrollRange(r.win)
            /\ WinStep("scrollBy", r.win, screen, r.emitted)

\* ScrollPages, and ScrollPrompts when the Screen has no REPL
ScrollByPages ==
    \E mode \in {"ScrollPages", "ScrollPrompts"}, amount \in Amounts, fullPage \in BOOLEAN :
        LET r == scrollBy(win, screen, mode, amount, fullPage, FALSE, {})
        IN  /\ InScrollRange(r.win)
            /\ WinStep("scrollBy", r.win, screen, r.emitted)

\* ScrollPrompts when the Screen has a REPL
ScrollByPrompts ==
    \E amount \in Amounts, fullPage \in BOOLEAN, prompts \in SUBSET (0..screen.histLines) :
        LET r == scrollBy(win, screen, "ScrollPrompts", amount, fullPage, TRUE, prompts)
        IN  /\ InScrollRange(r.win)
            /\ WinStep("scrollBy", r.win, screen, r.emitted)

ScrollTo ==
    \E line \in -1..(MaxHistLines + MaxScreenLines) :
        LET r == scrollTo(win, screen, line)
        IN  /\ InScrollRange(r.win)
            /\ WinStep("scrollTo", r.win, screen, r.emitted)

SetTrackOutput ==
    \E trackOutput \in BOOLEAN :
        /\ trackOutput # win._trackOutput
        /\ WinStep("setTrackOutput", setTrackOutput(win, trackOutput), screen, <<>>)

ResetScrollCount ==
    /\ win._scrollCount # 0
    /\ WinStep("resetScrollCount", resetScrollCount(win), screen, <<>>)

UpdateCurrentLine ==
    \E isResize \in BOOLEAN, oldTotalLines \in 1..(MaxHistLines + MaxScreenLines) :
        /\ WinStepRet("updateCurrentLine", IF isResize THEN 1 ELSE 0,
                updateCurrentLine(win, screen, isResize, oldTotalLines), screen, <<>>)

NotifyOutputChanged ==
    \E scrolledLines \in 0..MaxAmount, droppedLines \in 0..MaxAmount :
        LET r == notifyOutputChanged(win, screen, scrolledLines, droppedLines)
        IN  /\ InScrollRange(r.win)
            /\ WinStep("notifyOutputChanged", r.win, screen, r.emitted)

\* Scrolling, output and resizing
NextWin ==
    \/ ScreenOutput
    \/ ScreenResize
    \/ SetWindowLines
    \/ ScrollByLines
    \/ ScrollByPages
    \/ ScrollByPrompts
    \/ ScrollTo
    \/ SetTrackOutput
    \/ ResetScrollCount
    \/ UpdateCurrentLine
    \/ NotifyOutputChanged

SpecWin == InitWindow /\ [][NextWin]_vars

\* Scrolling, output and resizing, the prompt scan left out: its result is a
\* line handed to scrollTo, as in the other branches of scrollBy
NextAnchor ==
    \/ ScreenOutput
    \/ ScreenResize
    \/ SetWindowLines
    \/ ScrollByLines
    \/ ScrollByPages
    \/ ScrollTo
    \/ SetTrackOutput
    \/ ResetScrollCount
    \/ UpdateCurrentLine
    \/ NotifyOutputChanged

SpecAnchor == InitWindow /\ [][NextAnchor]_vars

\* The selection and the cached image
NextSel ==
    \/ GetImage
    \/ SetSelectionStart
    \/ SetSelectionEnd
    \/ SetSelectionByLineRange
    \/ ClearSelection
    \/ SetWindowLines
    \/ ScrollTo

SpecSel == InitWindow /\ [][NextSel]_vars

\* Scrolling, output and resizing with the cached image
NextImg ==
    \/ GetImage
    \/ ScreenOutput
    \/ ScreenResize
    \/ SetWindowLines
    \/ ScrollByLines
    \/ ScrollTo
    \/ SetTrackOutput
    \/ ResetScrollCount
    \/ UpdateCurrentLine
    \/ NotifyOutputChanged

SpecImg == InitWindow /\ [][NextImg]_vars

\* The cached image under scrolling and output, the window height fixed
NextDirty ==
    \/ GetImage
    \/ ScreenOutput
    \/ ScrollByLines
    \/ ScrollTo
    \/ SetTrackOutput
    \/ ResetScrollCount
    \/ UpdateCurrentLine
    \/ NotifyOutputChanged

SpecDirty == InitWindow /\ [][NextDirty]_vars

\* The selection endpoints under scrolling and tracked output notifications
NextPos ==
    \/ SetSelectionStart
    \/ SetSelectionEnd
    \/ ScrollTo
    \/ NotifyOutputChanged

SpecPos == InitWindow /\ [][NextPos]_vars

\* scrollBy(mode, amount, fullPage) with the call's arguments and what the
\* Screen reports (hasRepl, the lines carrying prompt_start) kept in lastOp.
\* prompts are the lines up to the boundary getHistLines(), the only ones the
\* loops look at; arguments a mode does not use are left at one value.
ScrollByCall ==
    \E mode \in ScrollModes, amount \in Amounts, fullPage \in BOOLEAN,
       hasRepl \in BOOLEAN, prompts \in SUBSET (0..screen.histLines) :
        LET r == scrollBy(win, screen, mode, amount, fullPage, hasRepl, prompts)
        IN  /\ (mode # "ScrollPrompts") => (~hasRepl /\ prompts = {})
            /\ ~hasRepl => prompts = {}
            /\ (mode = "ScrollLines" \/ hasRepl) => ~fullPage
            /\ InScrollRange(r.win)
            /\ win' = r.win
            /\ emitted' = r.emitted
            /\ lastOp' = [op |-> "scrollBy", ret |-> 0, mode |-> mode, amount |-> amount,
                          fullPage |-> fullPage, hasRepl |-> hasRepl, prompts |-> prompts]
            /\ UNCHANGED <<screen, storeState, fileVars>>

\* scrollBy in all its modes over windows of any height and a growing history
NextScroll ==
    \/ ScrollByCall
    \/ ScreenOutput
    \/ SetWindowLines
    \/ ResetScrollCount

SpecScroll == InitWindow /\ [][NextScroll]_vars

\* scrollBy(ScrollPrompts, ...) with a REPL over windows of any height
NextPrompt ==
    \/ (ScrollByCall /\ lastOp'.hasRepl)
    \/ ScreenOutput
    \/ SetWindowLines

SpecPrompt == InitWindow /\ [][NextPrompt]_vars

\* The scrolled signal seen by a subscriber that reads the image
NextEmit ==
    \/ GetImage
    \/ ScrollTo
    \/ ScrollByLines
    \/ SetWindowLines
    \/ ScreenOutput

SpecEmit == InitWindow /\ [][NextEmit]_vars

\* notifyOutputChanged with what the Screen reports (scrolledLines(),
\* droppedLines()) kept in lastOp
NotifyOutputChangedCall ==
    \E scrolledLines \in 0..MaxAmount, droppedLines \in 0..MaxAmount :
        LET r == notifyOutputChanged(win, screen, scrolledLines, droppedLines)
        IN  /\ InScrollRange(r.win)
            /\ win' = r.win
            /\ emitted' = r.emitted
            /\ lastOp' = [op |-> "notifyOutputChanged", ret |-> 0,
                          scrolledLines |-> scrolledLines, droppedLines |-> droppedLines]
            /\ UNCHANGED <<screen, storeState, fileVars>>

\* Output notifications to windows that follow the output and windows that do not
NextNotify ==
    \/ NotifyOutputChangedCall
    \/ ScreenOutput
    \/ SetWindowLines
    \/ ScrollTo
    \/ SetTrackOutput

SpecNotify == InitWindow /\ [][NextNotify]_vars

-----------------------------------------------------------------------------
(* Specifications of the history store; the window stays as constructed *)

Next ==
    \/ AddCells(TextLines)
    \/ AddLine
    \/ SetMaxNbLines
    \/ GetLineLen
    \/ IsWrappedLine
    \/ GetCells
    \/ ScrollNone
    \/ ScrollFile
    \/ ScrollCompact

Init ==
    /\ InitStore
    /\ IdleWin
    /\ IdleFile

Spec == Init /\ [][Next]_vars

\* Lines longer than LINE_SIZE, written to a store and migrated.
NextLong ==
    \/ AddCells(LongLines)
    \/ AddLine
    \/ (history.kind # "File" /\ ScrollFile)
    \/ ScrollCompact

SpecLong == Init /\ [][NextLong]_vars

\* One line of any format pattern, written to a compact store and read back.
NextLine ==
    \/ (written = <<>> /\ AddCells(FormatLines))
    \/ AddLine
    \/ GetCellsRange
    \/ (history.kind # "Compact" /\ ScrollCompact)

SpecLine == Init /\ [][NextLine]_vars

\* A compact store whose lines fill and leave the blocks of its allocator.
NextSlab ==
    \/ AddCells(SlabLines)
    \/ AddLine
    \/ SetMaxNbLines
    \/ ScrollCompact

SpecSlab == Init /\ [][NextSlab]_vars

\* One HistoryFile under appends and reads with failing system calls.
SpecFile == Init /\ [][NextFile]_vars

\* isWrappedLine(lineno) for line numbers inside and outside 0..getLines()-1;
\* junk is what the local `flag` holds before the read, flagRead whether the
\* branch that calls lineflags.get was taken
IsWrappedLineAt ==
    \E lineno \in -1..(getLines(history) + 1), mmapOk \in BOOLEAN, junk \in UninitBytes :
        /\ reads < MaxReads
        /\ LET r == isWrappedLine(history, lineno, mmapOk, junk)
           IN  /\ history' = r.h
               /\ lastOp' = [op |-> "isWrappedLine", ret |-> 0, lineno |-> lineno,
                             wrapped |-> r.ret,
                             flagRead |-> (history.kind = "File" /\ lineno >= 0
                                               /\ lineno <= File_getLines(history))]
        /\ reads' = reads + 1
        /\ oldScroll' = NoScroll
        /\ UNCHANGED <<written, pending, winVars, fileVars>>

\* A file-backed store asked for the wrapped flag of any line number.
NextFlag ==
    \/ AddCells(TextLines)
    \/ AddLine
    \/ ScrollFile
    \/ IsWrappedLineAt

SpecFlag == Init /\ [][NextFlag]_vars

-----------------------------------------------------------------------------
(* Observations used by the properties *)

IsSuffix(s, t) == Len(s) <= Len(t) /\ s = SubSeq(t, Len(t) - Len(s) + 1, Len(t))

LastN(s, n) == SubSeq(s, Len(s) - qMin(n, Len(s)) + 1, Len(s))

\* cells of the lines handed to the current object, complete or not
CellsWritten == [i \in 1..Len(written) |-> written[i].cells] \o pending

\* cells of the lines the object holds
CellsHeld(h) == [i \in 1..getLines(h) |-> ReadLine(h, i - 1, TRUE, 0).cells]

IsCompact == history.kind = "Compact"
IsFile == history.kind = "File"

\* the step is an addCells call
WriteStep == pending = <<>> /\ pending' # <<>>

-----------------------------------------------------------------------------
(* Properties of the history stores *)

\* C1: a compact store never holds more lines than its maxLineCount.
C1_CompactCapacity ==
    IsCompact => getLines(history) <= history.maxLineCount

\* C2: a compact store holds a contiguous suffix of the lines written to it, in
\* write order and ending with the last one written; and a write to a store
\* that holds maxLineCount lines leaves the last maxLineCount lines (capacity 3
\* holding a,b,c: writing d leaves b,c,d).
C2_FifoEviction ==
    [][(IsCompact /\ history'.kind = "Compact") =>
          /\ IsSuffix(CellsHeld(history'), CellsWritten')
          /\ (WriteStep /\ history.maxLineCount >= 1) => CellsHeld(history') # <<>>
          /\ (WriteStep /\ history.maxLineCount >= 1
                        /\ getLines(history) = history.maxLineCount)
                => CellsHeld(history') =
                       LastN(CellsHeld(history) \o pending', history.maxLineCount)]_vars

\* What holds of the code for C2: the suffix part alone.
C2_HeldIsSuffixOfWritten ==
    IsCompact =>
        /\ IsSuffix(CellsHeld(history), CellsWritten)
        /\ pending # <<>> => CellsHeld(history) # <<>>

\* C3: a file-backed store returns every line written to it: as many lines as
\* addLine calls, each with its length, wrapped flag and cells, whatever the
\* mapping state of the three files and whether mmap succeeds.
C3_FileRoundTrip ==
    IsFile =>
        /\ getLines(history) = Len(written)
        /\ \A lineno \in 0..(getLines(history) - 1), mmapOk \in BOOLEAN, junk \in UninitBytes :
              LET n == getLineLen(history, lineno, mmapOk, junk)
                  w == isWrappedLine(history, lineno, mmapOk, junk)
                  c == getCells(history, lineno, 0, n.ret, mmapOk, junk)
              IN  /\ n.ret = Len(written[lineno + 1].cells)
                  /\ w.ret = written[lineno + 1].wrapped
                  /\ c.ret = written[lineno + 1].cells

\* C3 witness: a wrapped, non-empty line read back with getCells while the
\* cells file is mapped.
C3_Witness ==
    /\ IsFile
    /\ lastOp.op = "getCells"
    /\ isMapped(history.cells)
    /\ Len(written) >= 1
    /\ written[1].wrapped
    /\ written[1].cells # <<>>

\* the line a compact store holds at index lineNumber, as it was written
OriginalOf(lineNumber) ==
    CellsWritten[Len(CellsWritten) - getLines(history) + lineNumber + 1]

\* C4: getCells on a compact line returns, for every range inside the line, the
\* cells that were written (character, rendition, foreground, background).
C4_FormatRoundTrip ==
    IsCompact =>
        \A lineNumber \in 0..(getLines(history) - 1) :
            LET length == Compact_getLineLen(history, lineNumber)
                orig == OriginalOf(lineNumber)
            IN  /\ length = Len(orig)
                /\ \A startColumn \in 0..length :
                      \A count \in 0..(length - startColumn) :
                          Compact_getCells(history, lineNumber, startColumn, count)
                              = SubSeq(orig, startColumn + 1, startColumn + count)

\* C4 witness: a range read from the middle of a line with three format runs.
C4_Witness ==
    /\ IsCompact
    /\ lastOp.op = "getCellsRange"
    /\ history.lines[lastOp.ret[1] + 1].formatLength = 3
    /\ history.lines[lastOp.ret[1] + 1].length = 3
    /\ lastOp.ret[2] = 1
    /\ Len(lastOp.ret[3]) = 2
    /\ lastOp.ret[3] = SubSeq(OriginalOf(lastOp.ret[1]), 2, 3)

AfterScroll == lastOp.op = "scroll"

\* C5: after CompactHistoryType::scroll(old) the store returned holds the last
\* min(n, m) lines of old, cells and wrapped flags, in order.
C5_MigrationToCompactKeepsTail ==
    (AfterScroll /\ IsCompact) =>
        ReadLines(history, TRUE, 0) = LastN(oldScroll.lines, history.maxLineCount)

\* C6: after HistoryTypeFile::scroll(old) with old not file-backed, the store
\* returned holds every line of old: same count, lengths, cells and wrapped flags.
C6_MigrationToFileLossless ==
    (AfterScroll /\ IsFile /\ oldScroll.kind # "File") =>
        \A mmapOk \in BOOLEAN, junk \in UninitBytes :
            ReadLines(history, mmapOk, junk) = oldScroll.lines

\* C6 witness: a compact store holding a line longer than LINE_SIZE and another
\* line was migrated.
C6_Witness ==
    /\ AfterScroll
    /\ IsFile
    /\ oldScroll.kind = "Compact"
    /\ getLines(history) = 2
    /\ \E i \in 1..2 : Len(oldScroll.lines[i].cells) > LINE_SIZE /\ oldScroll.lines[i].wrapped
    /\ \E i \in 1..2 : Len(oldScroll.lines[i].cells) = 0

\* C7: scroll(old) with old already of the requested kind returns old itself
\* and does not delete it.
C7_SameKindInPlace ==
    (AfterScroll /\ oldScroll.kind = history.kind) =>
        /\ history.id = oldScroll.id
        /\ ~oldScroll.deleted

-----------------------------------------------------------------------------
(* The window's anchor *)

TotalLines == screen.histLines + screen.lines

SelectionMutations ==
    {"setSelectionStart", "setSelectionEnd", "setSelectionByLineRange", "clearSelection"}

Emitted(name) == \E i \in 1..Len(emitted) : emitted[i].signal = name

\* C8: after every ViewWindow operation and after every change of the Screen's
\* history and screen line counts, the anchor the window reports, currentLine(),
\* satisfies 0 <= currentLine <= max(0, totalLines - windowLines), also when
\* totalLines < windowLines.
C8_AnchorClamp ==
    /\ 0 <= currentLine(win, screen)
    /\ currentLine(win, screen) <=
           (IF TotalLines - win._windowLines > 0 THEN TotalLines - win._windowLines ELSE 0)

\* The window was made taller than all the lines there are while the stored
\* anchor field still holds a line scrolled to earlier; the reported anchor is 0.
C8_Witness ==
    /\ lastOp.op = "setWindowLines"
    /\ TotalLines < win._windowLines
    /\ win._currentLine > 0
    /\ currentLine(win, screen) = 0

\* C9: while trackOutput is true, after every notifyOutputChanged the anchor is
\* max(0, history lines - (windowLines - screen lines)), whatever it was before
\* and however many lines were scrolled or dropped.
C9_OutputTracking ==
    (lastOp.op = "notifyOutputChanged" /\ win._trackOutput) =>
        LET follow == screen.histLines - (win._windowLines - screen.lines)
            anchor == IF follow > 0 THEN follow ELSE 0
        IN  /\ win._currentLine = anchor
            /\ currentLine(win, screen) = anchor

\* A tracking window taller than the live screen was notified of output that
\* scrolled lines: it overlaps the history and its anchor is inside it.
C9_Witness ==
    /\ lastOp.op = "notifyOutputChanged"
    /\ win._trackOutput
    /\ win._windowLines > screen.lines
    /\ win._scrollCount < 0
    /\ win._currentLine = screen.histLines - (win._windowLines - screen.lines)
    /\ win._currentLine > 0

\* C10: every selection mutation made through the window (setSelectionStart,
\* setSelectionEnd, setSelectionByLineRange, clearSelection) marks the cached
\* image dirty and emits selectionChanged, and a dirty image stays dirty until
\* the next getImage.
C10_SelectionMutationsMarkDirty ==
    /\ [](lastOp.op \in SelectionMutations =>
              (win._bufferNeedsUpdate /\ Emitted("selectionChanged")))
    /\ [][(win._bufferNeedsUpdate /\ lastOp'.op # "getImage") =>
              win'._bufferNeedsUpdate]_vars

-----------------------------------------------------------------------------
(* The cached image *)

ScrollAndOutputCalls == {"scrollTo", "scrollBy", "notifyOutputChanged"}

\* C11: after every scrollTo, scrollBy and notifyOutputChanged call, tracking or
\* not, the image cache is dirty; a dirty cache stays dirty through every
\* operation other than getImage, so only getImage makes the cache clean.
C11_ScrollOutputDirty ==
    /\ [](lastOp.op \in ScrollAndOutputCalls => win._bufferNeedsUpdate)
    /\ [][(win'._bufferNeedsUpdate # win._bufferNeedsUpdate /\ ~win'._bufferNeedsUpdate)
              => lastOp'.op = "getImage"]_vars

\* C11 witness: an image was materialised for the window's size and a scroll or
\* an untracked output notification that moved the anchor has left it dirty.
C11_Witness ==
    /\ lastOp.op \in ScrollAndOutputCalls
    /\ win._windowBuffer.allocated
    /\ win._windowBufferSize = windowLines(win) * windowColumns(screen)
    /\ win._bufferNeedsUpdate
    /\ currentLine(win, screen) > 0
    /\ ~win._trackOutput

\* getImage materialises the image again: the buffer is missing or of another
\* size, or the flag is set
CacheDirty(w, s) ==
    \/ ~w._windowBuffer.allocated
    \/ w._windowBufferSize # windowLines(w) * windowColumns(s)
    \/ w._bufferNeedsUpdate

\* the cells getImage writes when it materialises the image
ExpectedImage(w, s) ==
    getImage([w EXCEPT !._bufferNeedsUpdate = TRUE], s)._windowBuffer.cells

\* updateCurrentLine with a resize pending in the Screen, or setWindowLines
\* with another number of lines
ResizeHandled ==
    /\ lastOp.op \in {"updateCurrentLine", "setWindowLines"}
    /\ lastOp.ret = 1

\* C12: after the window has handled a resize (updateCurrentLine while the
\* Screen reports a resize, or setWindowLines changing windowLines) the cache is
\* dirty, so the next getImage returns the image materialised for the window's
\* position and size and not the cached buffer.
C12_ResizeRematerializes ==
    ResizeHandled =>
        getImage(win, screen)._windowBuffer.cells = ExpectedImage(win, screen)

\* a cache that getImage would return as it is holds the image of the window
Coherent(w, s) ==
    ~CacheDirty(w, s) => w._windowBuffer.cells = ExpectedImage(w, s)

ScreenEvents == {"Screen::output", "Screen::resize"}

\* C13: a cache that is not dirty holds exactly the cells of the global lines
\* currentLine .. currentLine + windowLines - 1, blank past the last line: no
\* operation of the window takes a coherent cache to a stale clean one.
C13_CacheCoherence ==
    [][(Coherent(win, screen) /\ lastOp'.op \notin ScreenEvents)
           => Coherent(win', screen')]_vars

-----------------------------------------------------------------------------
(* The scroll count *)

ScrollCalls == {"scrollTo", "scrollBy"}

\* C14: scrollCount is the sum of the changes that the scrollTo calls (direct or
\* through scrollBy) since the last resetScrollCount made to the anchor reported
\* by currentLine(): every scroll call adds the change it makes to currentLine(),
\* resetScrollCount sets 0, and every other step (an untracked output
\* notification, a resize, a change of the history) leaves it as it is.
C14_ScrollCountAccumulation ==
    [][/\ lastOp'.op \in ScrollCalls =>
              win'._scrollCount - win._scrollCount
                  = currentLine(win', screen') - currentLine(win, screen)
       /\ lastOp'.op = "resetScrollCount" => win'._scrollCount = 0
       /\ (/\ lastOp'.op \notin ScrollCalls \cup {"resetScrollCount"}
           /\ ~(lastOp'.op = "notifyOutputChanged" /\ win._trackOutput))
              => win'._scrollCount = win._scrollCount]_vars

-----------------------------------------------------------------------------
(* Selection coordinates *)

\* the position a setSelectionStart/setSelectionEnd step was called with
CalledPosition(op) == Position(op.column, op.line)

\* C15: setSelectionStart(c, l) followed by getSelectionStart() yields (c, l),
\* also when the anchor is changed between the two calls: right after the call
\* the getter returns (c, l), and a scrollTo leaves what the getter returns
\* unchanged. The same for setSelectionEnd/getSelectionEnd.
C15_RoundTripAcrossAnchorChanges ==
    [][/\ lastOp'.op = "setSelectionStart" =>
              getSelectionStart(win', screen') = CalledPosition(lastOp')
       /\ lastOp'.op = "setSelectionEnd" =>
              getSelectionEnd(win', screen') = CalledPosition(lastOp')
       /\ (lastOp'.op = "scrollTo" /\ screen.selBegin # NoPosition) =>
              getSelectionStart(win', screen') = getSelectionStart(win, screen)
       /\ (lastOp'.op = "scrollTo" /\ screen.selEnd # NoPosition) =>
              getSelectionEnd(win', screen') = getSelectionEnd(win, screen)]_vars

\* the position in global coordinates that the getters report
GlobalStart(w, s) ==
    Position(getSelectionStart(w, s).column, getSelectionStart(w, s).line + currentLine(w, s))

GlobalEnd(w, s) ==
    Position(getSelectionEnd(w, s).column, getSelectionEnd(w, s).line + currentLine(w, s))

\* C15 as it holds: right after setSelectionStart(c, l) the getter returns
\* (c, l); a step that is not a selection mutation keeps the column and moves
\* the reported line by the opposite of the change of the anchor, so that a
\* later getSelectionStart() returns (c, l + anchor at the set - anchor at the
\* get). The same for setSelectionEnd/getSelectionEnd.
C15_RoundTripUpToAnchorShift ==
    [][/\ lastOp'.op = "setSelectionStart" =>
              getSelectionStart(win', screen') = CalledPosition(lastOp')
       /\ lastOp'.op = "setSelectionEnd" =>
              getSelectionEnd(win', screen') = CalledPosition(lastOp')
       /\ lastOp'.op \notin SelectionMutations =>
              /\ GlobalStart(win', screen') = GlobalStart(win, screen)
              /\ GlobalEnd(win', screen') = GlobalEnd(win, screen)]_vars

\* C15 witness: a start set with setSelectionStart is reported above the window
\* after a scrollTo moved the anchor down.
C15_Witness ==
    /\ lastOp.op = "scrollTo"
    /\ screen.selBegin # NoPosition
    /\ screen.selEnd = NoPosition
    /\ currentLine(win, screen) > 0
    /\ getSelectionStart(win, screen).line < 0

-----------------------------------------------------------------------------
(* Line counts of the history stores *)

\* C18: for every kind of store getLines() never decreases across addCells and
\* addLine calls; a step that decreases it is a setMaxNbLines on a compact
\* store or a migration to another type.
C18_AppendOnlyMonotone ==
    [][/\ lastOp'.op \in {"addCells", "addLine"} =>
              getLines(history') >= getLines(history)
       /\ getLines(history') < getLines(history) =>
              \/ lastOp'.op = "setMaxNbLines" /\ IsCompact
              \/ lastOp'.op = "scroll"]_vars

\* C18 witness: an addCells on a compact store evicted its oldest line and the
\* store holds fewer lines than were written to it.
C18_Witness ==
    /\ IsCompact
    /\ lastOp.op = "addCells"
    /\ getLines(history) >= 1
    /\ getLines(history) < Len(CellsWritten)

-----------------------------------------------------------------------------
(* The mapping of the three files of a file-backed store *)

Files == {"index", "cells", "lineflags"}

\* the files a call of the store appends to, and the files it reads
AppendedBy(op) ==
    IF op = "addCells" THEN {"cells"}
    ELSE IF op = "addLine" THEN {"index", "lineflags"}
    ELSE {}

ReadBy(op) ==
    IF op = "getLineLen" THEN {"index"}
    ELSE IF op = "isWrappedLine" THEN {"lineflags"}
    ELSE IF op = "getCells" THEN {"index", "cells"}
    ELSE {}

\* the step is a call on a file-backed store that stays the same object
FileStoreStep ==
    /\ IsFile
    /\ history'.kind = "File"
    /\ history'.id = history.id

\* one read of f takes the balance down by 1, or resets it to 0 when the mmap
\* it attempts fails
ReadAccounting(f) ==
    \A mmapOk \in BOOLEAN :
        LET g == get(f, <<0>>, 0, mmapOk).file
        IN  \/ g.readWriteBalance = f.readWriteBalance - 1
            \/ /\ ~isMapped(f)
               /\ f.readWriteBalance - 1 < MAP_THRESHOLD
               /\ ~isMapped(g)
               /\ g.readWriteBalance = 0

\* what a step does to file name of the store, apart from how it gets mapped
BalanceAndUnmap(name, f, g, op) ==
    /\ name \in AppendedBy(op) =>
           (g.readWriteBalance = f.readWriteBalance + 1 /\ ~isMapped(g))
    /\ name \in ReadBy(op) =>
           (g.readWriteBalance < f.readWriteBalance \/ g.readWriteBalance = 0)
    /\ name \notin (AppendedBy(op) \cup ReadBy(op)) => g = f
    /\ ReadAccounting(f)
    /\ isMapped(g) => g.fileMap = len(g)

\* C19: for each of the three files of a file-backed store the balance goes up
\* by 1 on each append and down by 1 on each read; the file becomes mapped only
\* in a read made while it is unmapped and its balance is below the threshold;
\* every append leaves the file unmapped and a mapping covers the whole file.
C19_MmapHeuristic ==
    [][FileStoreStep =>
          \A name \in Files :
              /\ BalanceAndUnmap(name, history[name], history'[name], lastOp'.op)
              /\ (~isMapped(history[name]) /\ isMapped(history'[name])) =>
                     /\ name \in ReadBy(lastOp'.op)
                     /\ history'[name].readWriteBalance < MAP_THRESHOLD]_vars

\* C19 as it holds: the same, but the index file is also mapped by a lookup of
\* a line's offset made while it is unmapped, whatever its balance.
C19_MmapHeuristicButIndex ==
    [][FileStoreStep =>
          \A name \in Files :
              /\ BalanceAndUnmap(name, history[name], history'[name], lastOp'.op)
              /\ (~isMapped(history[name]) /\ isMapped(history'[name])) =>
                     /\ name \in ReadBy(lastOp'.op)
                     /\ (name # "index" =>
                             history'[name].readWriteBalance < MAP_THRESHOLD)]_vars

\* C19 witness: after a read the index is mapped although its balance is not
\* below the threshold, and the cells file with its balance is not mapped.
C19_Witness ==
    /\ IsFile
    /\ lastOp.op = "getCells"
    /\ isMapped(history.index)
    /\ history.index.readWriteBalance >= MAP_THRESHOLD
    /\ ~isMapped(history.cells)
    /\ history.cells.readWriteBalance >= MAP_THRESHOLD

-----------------------------------------------------------------------------
(* Failures of the system calls of a HistoryFile *)

\* every range of the file is read back as the bytes the writes reported,
\* through the mapping or through read(2)
Readable(f, log) ==
    /\ len(f) = Len(log)
    /\ \A size \in 0..MaxCount, mmapOk \in BOOLEAN :
           \A loc \in 0..(len(f) - size) :
               get(f, Uninit(size, 0), loc, mmapOk).buffer = SubSeq(log, loc + 1, loc + size)

\* the get of this step tried to map the file and mmap failed
MmapFailedInGet ==
    /\ lastOp'.op = "HistoryFile::get"
    /\ ~isMapped(file)
    /\ file.readWriteBalance - 1 < MAP_THRESHOLD
    /\ ~(lastOp'.mmapOk /\ len(file) > 0)

\* the add of this step failed in lseek or in write
AddFailed == lastOp'.op = "HistoryFile::add" /\ lastOp'.ret < 0

\* C20: (a) when mmap fails in a read the file stays unmapped, the balance is
\* reset to 0 and the read returns the bytes through a positioned read; (b) a
\* write that reports rc bytes advances length() by rc, not by the requested
\* count; (c) an append whose seek or write fails leaves length() unchanged; and
\* after any of these every range of the file still reads back as written.
C20_FailureHandling ==
    [][/\ MmapFailedInGet =>
              /\ ~isMapped(file')
              /\ file'.readWriteBalance = 0
              /\ lastOp'.buffer = SubSeq(fileLog, lastOp'.loc + 1,
                                         lastOp'.loc + Len(lastOp'.buffer))
       /\ (lastOp'.op = "HistoryFile::add" /\ lastOp'.ret >= 0) =>
              len(file') = len(file) + lastOp'.ret
       /\ AddFailed => (len(file') = len(file) /\ file'.data = file.data)
       /\ Readable(file', fileLog')]_vars

\* C20 witness: a write asked for two bytes and reported one written, on a file
\* that was read in between, and the file now holds two bytes.
C20_Witness ==
    /\ lastOp.op = "HistoryFile::add"
    /\ lastOp.count = 2
    /\ lastOp.ret = 1
    /\ len(file) = 2
    /\ file.readWriteBalance = 1

-----------------------------------------------------------------------------
(* The allocator of the compact store *)

\* the allocations a line holds
LinePointers(l) ==
    IF l.length > 0 THEN {l.this, l.formatArrayAt, l.textAt} ELSE {l.this}

LivePointers(h) == UNION {LinePointers(h.lines[i]) : i \in 1..Len(h.lines)}

\* the live allocations inside block b
LiveIn(h, b) == {p \in LivePointers(h) : contains(b, p)}

\* what one deallocate(ptr) call does to the block that contains ptr: the block
\* is destroyed and unlinked in that call when its counter was 1 and stays,
\* with its counter one lower, otherwise; the other blocks are untouched
DeallocateReleasesAtZero(list, ptr) ==
    \A i \in 1..Len(list) :
        contains(list[i], ptr) =>
            deallocate(list, ptr) =
                IF list[i].allocCount = 1
                THEN removeAt(list, i)
                ELSE [list EXCEPT ![i].allocCount = @ - 1]

\* C16: between the operations of a compact store every block of its allocator
\* has a counter of at least 1, equal to the live allocations inside it, and
\* every live pointer lies in a block of the list; a deallocate call destroys
\* and unlinks a block exactly when its counter reaches zero in that call.
C16_SlabLifetime ==
    IsCompact =>
        LET list == history.blockList
        IN  /\ \A i \in 1..Len(list) :
                   /\ list[i].allocCount >= 1
                   /\ list[i].allocCount = Cardinality(LiveIn(history, list[i]))
            /\ \A i, j \in 1..Len(list) :
                   list[i].blockStart = list[j].blockStart => i = j
            /\ \A p \in LivePointers(history) :
                   /\ \E i \in 1..Len(list) : contains(list[i], p)
                   /\ DeallocateReleasesAtZero(list, p)

\* C16 witness: the first block of the allocator was destroyed when its last
\* allocation was released, and a later block with live allocations remains.
C16_Witness ==
    /\ IsCompact
    /\ Len(history.blockList) = 1
    /\ history.blockList[1].blockStart = 2
    /\ Len(history.lines) = 1
    /\ lastOp.op \in {"setMaxNbLines", "scroll"}

RECURSIVE SumAllocCount(_)
SumAllocCount(list) ==
    IF list = <<>> THEN 0 ELSE list[1].allocCount + SumAllocCount(Tail(list))

EmptyLines(h) == {i \in 1..Len(h.lines) : h.lines[i].length = 0}

\* C17: every line a compact store holds, of any length including zero cells,
\* has exactly three live allocations (line object, format array, text), so the
\* counters of all blocks add up to 3 x getLines().
C17_ThreeAllocationsPerLine ==
    IsCompact =>
        /\ \A i \in 1..Len(history.lines) :
               /\ history.lines[i].this # NullPtr
               /\ history.lines[i].formatArrayAt # NullPtr
               /\ history.lines[i].textAt # NullPtr
        /\ SumAllocCount(history.blockList) = 3 * getLines(history)

\* C17 as it holds: a line of at least one cell has three live allocations and
\* a line of zero cells has one, the line object; all of them are released
\* when the line is evicted, so the counters of all blocks add up to
\* 3 x (lines with cells) + (lines without cells).
C17_AllocationsPerLine ==
    IsCompact =>
        /\ \A i \in 1..Len(history.lines) :
               LET l == history.lines[i]
               IN  /\ l.this # NullPtr
                   /\ l.length > 0 => (l.formatArrayAt # NullPtr /\ l.textAt # NullPtr)
                   /\ Cardinality(LinePointers(l)) = IF l.length > 0 THEN 3 ELSE 1
        /\ \A i, j \in 1..Len(history.lines) :
               i # j => LinePointers(history.lines[i]) \cap LinePointers(history.lines[j]) = {}
        /\ SumAllocCount(history.blockList)
               = 3 * (getLines(history) - Cardinality(EmptyLines(history)))
                   + Cardinality(EmptyLines(history))

\* C17 witness: the store holds a line without cells and a line with cells,
\* four allocations in all.
C17_Witness ==
    /\ IsCompact
    /\ getLines(history) = 2
    /\ Cardinality(EmptyLines(history)) = 1
    /\ SumAllocCount(history.blockList) = 4

-----------------------------------------------------------------------------
(* Scrolling by lines, pages and prompts *)

\* the anchor a request for line x ends at
Clamp(x, w, s) ==
    LET hi == IF lineCount(s) - windowLines(w) > 0 THEN lineCount(s) - windowLines(w) ELSE 0
    IN  IF x < 0 THEN 0 ELSE IF x > hi THEN hi ELSE x

\* the step is a scrollBy call that scrolls by whole or half pages
PageScroll ==
    /\ lastOp'.op = "scrollBy"
    /\ \/ lastOp'.mode = "ScrollPages"
       \/ lastOp'.mode = "ScrollPrompts" /\ ~lastOp'.hasRepl

PageStep == IF lastOp'.fullPage THEN windowLines(win) ELSE windowLines(win) \div 2

\* C21: scrollBy(Lines, amount) sets the anchor to clamp(currentLine + amount);
\* scrollBy(Pages, amount, fullPage), and scrollBy(Prompts, ...) without a REPL,
\* set it to clamp(currentLine + amount * (fullPage ? windowLines : windowLines / 2))
\* with integer division; a scroll by zero lines (half a page of a 1-line
\* window) leaves the anchor and scrollCount unchanged.
C21_LineAndPageScrolling ==
    [][/\ (lastOp'.op = "scrollBy" /\ lastOp'.mode = "ScrollLines") =>
              currentLine(win', screen') =
                  Clamp(currentLine(win, screen) + lastOp'.amount, win, screen)
       /\ PageScroll =>
              currentLine(win', screen') =
                  Clamp(currentLine(win, screen) + lastOp'.amount * PageStep, win, screen)
       /\ (PageScroll /\ ~lastOp'.fullPage /\ windowLines(win) = 1) =>
              /\ currentLine(win', screen') = currentLine(win, screen)
              /\ win'._scrollCount = win._scrollCount]_vars

\* the step is a scrollBy(Prompts, ...) call while the Screen reports a REPL
PromptScroll ==
    /\ lastOp'.op = "scrollBy"
    /\ lastOp'.mode = "ScrollPrompts"
    /\ lastOp'.hasRepl

\* the prompt_start lines strictly above line c, and those strictly below it
\* up to the boundary getHistLines()
PromptsAbove(c) == {p \in lastOp'.prompts : p < c}

PromptsBelow(c) == {p \in lastOp'.prompts : p > c /\ p <= screen.histLines}

\* the n-th line of S counted downwards from its largest, and upwards from its smallest
NthBelowTop(S, n) == CHOOSE p \in S : Cardinality({q \in S : q >= p}) = n

NthAboveBottom(S, n) == CHOOSE p \in S : Cardinality({q \in S : q <= p}) = n

\* the line the claim names for a prompt scroll by amount from line c
PromptTarget(c, amount) ==
    IF amount < 0
    THEN IF Cardinality(PromptsAbove(c)) >= 0 - amount
         THEN NthBelowTop(PromptsAbove(c), 0 - amount)
         ELSE 0
    ELSE IF Cardinality(PromptsBelow(c)) >= amount
         THEN NthAboveBottom(PromptsBelow(c), amount)
         ELSE screen.histLines

\* the lines whose property the loops of scrollBy read, and the lines scrollBy
\* requested from the Screen with getLineProperties
PromptLinesRead(c, amount) ==
    IF amount < 0
    THEN PromptAbove(lastOp'.prompts, c, amount)..(c - 1)
    ELSE (c + 1)..PromptBelow(lastOp'.prompts, screen.histLines, c, amount)

PromptLinesRequested(c, amount) ==
    IF amount < 0 THEN 0..c ELSE c..screen.histLines

\* the anchor never moves against the sign of amount and no line property is
\* read outside the requested range
PromptScrollIsSafe ==
    LET c == currentLine(win, screen)
        amount == lastOp'.amount
    IN  /\ amount < 0 => currentLine(win', screen') <= c
        /\ amount > 0 => currentLine(win', screen') >= c
        /\ amount # 0 => PromptLinesRead(c, amount) \subseteq PromptLinesRequested(c, amount)

\* C22: with a REPL, scrollBy(Prompts, amount, _) with amount < 0 moves the anchor
\* to the |amount|-th prompt_start line strictly above currentLine, or to line 0
\* when fewer exist; with amount > 0 to the amount-th prompt_start line strictly
\* below currentLine, or to getHistLines() when fewer exist; it never reads a line
\* property outside the requested range and never moves against the sign of amount.
C22_PromptScrolling ==
    [][PromptScroll =>
           /\ lastOp'.amount # 0 =>
                  currentLine(win', screen') =
                      PromptTarget(currentLine(win, screen), lastOp'.amount)
           /\ PromptScrollIsSafe]_vars

\* C22 as the code has it: the line found is a request to scrollTo, which bounds
\* it to [0, max(0, totalLines - windowLines)], and a window already at or below
\* the boundary getHistLines() is not moved by a positive amount.
C22_PromptScrollingClamped ==
    [][PromptScroll =>
           LET c == currentLine(win, screen)
               amount == lastOp'.amount
           IN  /\ currentLine(win', screen') =
                      IF amount = 0 \/ (amount > 0 /\ c >= screen.histLines)
                      THEN c
                      ELSE Clamp(PromptTarget(c, amount), win, screen)
               /\ PromptScrollIsSafe]_vars

\* C22 witness: a prompt scroll downwards stopped at a prompt_start line before
\* the boundary getHistLines(), which is where the anchor now is.
C22_Witness ==
    /\ lastOp.op = "scrollBy"
    /\ lastOp.mode = "ScrollPrompts"
    /\ lastOp.hasRepl
    /\ lastOp.amount > 0
    /\ currentLine(win, screen) >= 1
    /\ currentLine(win, screen) \in lastOp.prompts
    /\ currentLine(win, screen) < screen.histLines

-----------------------------------------------------------------------------
(* Output notifications *)

\* the step is a notifyOutputChanged call on a window that does not track output
UntrackedNotification ==
    /\ lastOp'.op = "notifyOutputChanged"
    /\ ~win._trackOutput

\* C23: when trackOutput is false, notifyOutputChanged sets currentLine to
\* min(max(0, currentLine - droppedLines), history lines), leaves scrollCount
\* unchanged and emits outputChanged; so when the d oldest lines were dropped and
\* currentLine >= d, the window is d lines higher and shows the content it showed.
C23_UntrackedNotification ==
    [][UntrackedNotification =>
           LET c == currentLine(win, screen)
               d == lastOp'.droppedLines
           IN  /\ currentLine(win', screen') = qMin(qMax(0, c - d), screen.histLines)
               /\ win'._scrollCount = win._scrollCount
               /\ emitted' = <<Signal("outputChanged", 0)>>
               /\ c >= d => currentLine(win', screen') = c - d]_vars

-----------------------------------------------------------------------------
(* Line numbers outside a file-backed store *)

\* C24: a file-backed store's isWrappedLine returns false for every line number
\* out of range, lineno < 0 and lineno >= getLines() (one past the end
\* included), and does not read a flag byte for it.
C24_OutOfRangeNotWrapped ==
    (/\ lastOp.op = "isWrappedLine"
     /\ IsFile
     /\ (lastOp.lineno < 0 \/ lastOp.lineno >= getLines(history)))
        => (~lastOp.wrapped /\ ~lastOp.flagRead)

-----------------------------------------------------------------------------
(* The scrolled signal *)

\* the line a handler of the last signal finds in the first cell of getImage()
FirstLineSeen == getImage(win, screen)._windowBuffer.cells[1].line

\* C25: every scrolled(n) is emitted after the anchor, scrollCount and the dirty
\* flag were updated, with n the value currentLine() returns at that moment, so
\* 0 <= n <= max(0, totalLines - windowLines); a subscriber that calls getImage
\* from the handler gets the image of the window at line n.
C25_ScrolledAfterUpdate ==
    lastOp.op \in ScrollCalls =>
        /\ Len(emitted) = 1
        /\ emitted[1].signal = "scrolled"
        /\ emitted[1].arg = currentLine(win, screen)
        /\ emitted[1].arg >= 0
        /\ emitted[1].arg <= qMax(0, TotalLines - windowLines(win))
        /\ win._bufferNeedsUpdate
        /\ getImage(win, screen)._windowBuffer.cells = ExpectedImage(win, screen)
        /\ FirstLineSeen = emitted[1].arg

\* C25 witness: a scroll moved a window, whose image had been read, to a line
\* below the top; the request was bounded, the window being as tall as the lines.
C25_Witness ==
    /\ lastOp.op \in ScrollCalls
    /\ win._windowBuffer.allocated
    /\ emitted = <<Signal("scrolled", 1)>>
    /\ TotalLines - windowLines(win) = 1
    /\ win._scrollCount = 1

-----------------------------------------------------------------------------
(* The end of the output *)

\* C26: while trackOutput is true, right after every notifyOutputChanged
\* atEndOfOutput() returns true, for every windowLines, screen lines and history
\* lines, windows taller than totalLines included; atEndOfOutput() is true
\* exactly when currentLine = totalLines - windowLines.
C26_TrackingStaysAtEnd ==
    /\ (lastOp.op = "notifyOutputChanged" /\ win._trackOutput) =>
           atEndOfOutput(win, screen)
    /\ atEndOfOutput(win, screen) <=>
           (currentLine(win, screen) = TotalLines - windowLines(win))

-----------------------------------------------------------------------------
(* Blocks left behind by the compact store *)

\* C27: after any sequence of addCells, addLine and setMaxNbLines on a compact
\* store, once every line is evicted (getLines() = 0) the block list of the
\* allocator is empty; the list never has more blocks than there are live
\* allocations, and no block's counter is ever negative.
C27_NoSlabLeak ==
    IsCompact =>
        /\ getLines(history) = 0 => history.blockList = <<>>
        /\ Len(history.blockList) <= Cardinality(LivePointers(history))
        /\ \A i \in 1..Len(history.blockList) : history.blockList[i].allocCount >= 0

\* C27 witness: setMaxNbLines(0) evicted every line written to the store, a
\* line with cells among them, and the block list is empty again.
C27_Witness ==
    /\ IsCompact
    /\ lastOp.op = "setMaxNbLines"
    /\ lastOp.ret = 0
    /\ \E i \in 1..Len(written) : written[i].cells # <<>>
    /\ getLines(history) = 0
    /\ history.blockList = <<>>

====
